---- MODULE Spec2Model ----
(***************************************************************************)
(* Model of sort_downloads_by_year.py: one invocation of main() (and a     *)
(* second invocation on the resulting directory) over an abstract          *)
(* filesystem.                                                             *)
(*                                                                         *)
(* A name is the sequence of its characters, a path is the sequence of     *)
(* names below the downloads directory, and the filesystem is a set of     *)
(* nodes, one per existing path.  A timestamp is abstracted to the local   *)
(* calendar year it falls in.  A symbolic link is abstracted to what it    *)
(* resolves to (a file, a directory, nothing); its target never changes.   *)
(***************************************************************************)
EXTENDS Integers, Sequences, FiniteSets, TLC

\* ------------------------------------------------------------------ bounds
\* At most this many ordinary entries in the downloads directory at start.
MaxEntries == 2
\* At most this many files already inside the year folder at start.
MaxPresorted == 2

\* ------------------------------------------------------- characters, names
Digits == <<"0", "1", "2", "3", "4", "5", "6", "7", "8", "9">>

\* str.isdigit() of one character (the model's alphabet is ASCII)
IsDigitChar(c) == \E i \in 1..10 : Digits[i] = c

\* code point of a character of the model's alphabet
Ord(c) ==
  CASE c = " " -> 32 [] c = "(" -> 40 [] c = ")" -> 41 [] c = "." -> 46
    [] c = "0" -> 48 [] c = "1" -> 49 [] c = "2" -> 50 [] c = "3" -> 51
    [] c = "4" -> 52 [] c = "5" -> 53 [] c = "6" -> 54 [] c = "7" -> 55
    [] c = "8" -> 56 [] c = "9" -> 57
    [] c = "A" -> 65 [] c = "B" -> 66
    [] c = "a" -> 97 [] c = "b" -> 98 [] c = "t" -> 116

\* str.lower() of one character
LowerChar(c) == IF c = "A" THEN "a" ELSE IF c = "B" THEN "b" ELSE c

\* p.name.lower(), the sort key of iter_entries
NameLower(n) == [i \in 1..Len(n) |-> LowerChar(n[i])]

\* Python's ordering of two strings (lexicographic by code point)
RECURSIVE StrLess(_, _)
StrLess(a, b) ==
  IF b = <<>> THEN FALSE
  ELSE IF a = <<>> THEN TRUE
  ELSE IF Ord(Head(a)) # Ord(Head(b)) THEN Ord(Head(a)) < Ord(Head(b))
  ELSE StrLess(Tail(a), Tail(b))

\* str(y) of a non-negative integer
RECURSIVE IntToStr(_)
IntToStr(n) ==
  IF n < 10 THEN <<Digits[n + 1]>>
  ELSE IntToStr(n \div 10) \o <<Digits[(n % 10) + 1]>>

\* entry.name.isdigit() and len(entry.name) == 4
IsYearName(n) == /\ n # <<>>
                 /\ \A i \in 1..Len(n) : IsDigitChar(n[i])
                 /\ Len(n) = 4

\* name.rfind("."), 1-based; 0 when there is no dot
RECURSIVE RFindDot(_, _)
RFindDot(n, i) ==
  IF i = 0 THEN 0 ELSE IF n[i] = "." THEN i ELSE RFindDot(n, i - 1)

\* pathlib's PurePath.suffix: the last dot and what follows it, unless that
\* dot is the first or the last character
Suffix(n) ==
  LET p == RFindDot(n, Len(n))
  IN IF 1 < p /\ p < Len(n) THEN SubSeq(n, p, Len(n)) ELSE <<>>

\* pathlib's PurePath.stem
Stem(n) == SubSeq(n, 1, Len(n) - Len(Suffix(n)))

\* f"{stem} ({i}){suffix}"
Numbered(stem, i, suffix) ==
  stem \o <<" ", "(">> \o IntToStr(i) \o <<")">> \o suffix

\* -------------------------------------------------------------- filesystem
\* A node is [path, kind, id, ct, mt, locked]: id names the content (a copy
\* carries the id of its source), ct and mt are the years of st_ctime and
\* st_mtime, locked says that the operating system refuses to transfer it.
Kinds == {"file", "dir", "linkfile", "linkdir", "dangling", "junction"}

Root == <<>>

\* datetime.MINYEAR and datetime.MAXYEAR: fromtimestamp raises outside them
MinYear == 1
MaxYear == 9999

\* the year of timestamp 0: Windows' localtime takes nothing earlier
EpochYear == 1970

\* the year of the clock while the tool runs (time of a folder it creates)
NowYear == 2023

Parent(p) == SubSeq(p, 1, Len(p) - 1)
BaseName(p) == p[Len(p)]
Join(p, name) == Append(p, name)

IsPrefix(p, q) == Len(p) <= Len(q) /\ SubSeq(q, 1, Len(p)) = p

\* os.path.lexists
Has(fs, p) == \E n \in fs : n.path = p

NodeAt(fs, p) == CHOOSE n \in fs : n.path = p

\* Path.exists(): follows links, so a dangling link does not exist
Exists(fs, p) == Has(fs, p) /\ NodeAt(fs, p).kind # "dangling"

\* Path.is_dir(): follows links
IsDir(fs, p) ==
  Has(fs, p) /\ NodeAt(fs, p).kind \in {"dir", "linkdir", "junction"}

\* Path.is_symlink()
IsSymlink(fs, p) ==
  Has(fs, p) /\ NodeAt(fs, p).kind \in {"linkfile", "linkdir", "dangling"}

\* is_windows_junction: never on another system than Windows; there,
\* Path.is_junction() or the lstat fallback (a reparse point that is a
\* directory and no symlink) both single out the junction
is_windows_junction(fs, osName, p) ==
  IF osName # "nt" THEN FALSE
  ELSE Has(fs, p) /\ NodeAt(fs, p).kind = "junction"

\* the nodes at and below p
Subtree(fs, p) == {n \in fs : IsPrefix(p, n.path)}

\* n, found below path from, placed below path to
Rebase(n, from, to) ==
  [n EXCEPT !.path = to \o SubSeq(n.path, Len(from) + 1, Len(n.path))]

\* root.iterdir(): the names of the immediate children
IterDir(fs, root) == {n.path[Len(root) + 1] : n \in {m \in fs :
                        IsPrefix(root, m.path) /\ Len(m.path) = Len(root) + 1}}

\* sorted(..., key=lambda p: p.name.lower()) of a set of names
RECURSIVE SortedNames(_)
SortedNames(S) ==
  IF S = {} THEN <<>>
  ELSE LET least == CHOOSE x \in S :
                      \A y \in S : ~StrLess(NameLower(y), NameLower(x))
       IN <<least>> \o SortedNames(S \ {least})

\* ------------------------------------------------------------ file_year
\* file_year(p, date_source): [ok, year]; not ok stands for the exception
\* of p.stat() (a link to nothing) or of datetime.fromtimestamp (a year
\* datetime cannot hold, or on Windows a time before the epoch)
file_year(fs, osName, p, date_source) ==
  IF ~Exists(fs, p) THEN [ok |-> FALSE, year |-> 0]
  ELSE LET st == NodeAt(fs, p)
           ts == IF date_source = "created" THEN st.ct ELSE st.mt
       IN IF ts < MinYear \/ ts > MaxYear \/ (osName = "nt" /\ ts < EpochYear)
          THEN [ok |-> FALSE, year |-> 0]
          ELSE [ok |-> TRUE, year |-> ts]

\* --------------------------------------------------- unique_destination
\* a resolver that numbers the name once without looking
ProbeFromOnce(fs, parent, stem, suffix, i) ==
  Join(parent, Numbered(stem, i, suffix))

RECURSIVE ProbeFrom(_, _, _, _, _)
ProbeFrom(fs, parent, stem, suffix, i) ==
  LET candidate == Join(parent, Numbered(stem, i, suffix))
  IN IF ~Exists(fs, candidate) THEN candidate
     ELSE ProbeFrom(fs, parent, stem, suffix, i + 1)

unique_destination(fs, dest) ==
  IF ~Exists(fs, dest) THEN dest
  ELSE ProbeFrom(fs, Parent(dest), Stem(BaseName(dest)),
                 Suffix(BaseName(dest)), 1)

\* ---------------------------------------------------------- iter_entries
\* an enumerator without the test for year folders
YieldsNoYearTest(fs, osName, root, name, include_dirs, include_links) ==
  LET entry == Join(root, name)
  IN /\ ~((IsSymlink(fs, entry) \/ is_windows_junction(fs, osName, entry))
          /\ ~include_links)
     /\ ~(IsDir(fs, entry) /\ ~include_dirs)

\* the three tests of the loop body: TRUE when the entry is yielded
Yields(fs, osName, root, name, include_dirs, include_links) ==
  LET entry == Join(root, name)
  IN /\ ~(IsDir(fs, entry) /\ IsYearName(name))
     /\ ~((IsSymlink(fs, entry) \/ is_windows_junction(fs, osName, entry))
          /\ ~include_links)
     /\ ~(IsDir(fs, entry) /\ ~include_dirs)

\* ---------------------------------------------------------------- plan_ops
\* target_dir.mkdir(exist_ok=True): [ok, fs].  os.mkdir refuses a name that
\* is taken; pathlib then lets it pass only when the name is a directory.
MkDirExistOk(fs, p) ==
  IF Has(fs, p)
  THEN [ok |-> IsDir(fs, p), fs |-> fs]
  ELSE IF ~IsDir(fs, Parent(p)) THEN [ok |-> FALSE, fs |-> fs]
  ELSE [ok |-> TRUE,
        fs |-> fs \cup {[path |-> p, kind |-> "dir", id |-> <<"new", p>>,
                         ct |-> NowYear, mt |-> NowYear, locked |-> FALSE]}]

\* plan_ops, lines 116-121: a dry run creates nothing
EnsureTargetDirAlways(fs, o, target_dir) == MkDirExistOk(fs, target_dir)

EnsureTargetDir(fs, o, target_dir) ==
  IF o.dry_run THEN [ok |-> TRUE, fs |-> fs]
  ELSE MkDirExistOk(fs, target_dir)

\* plan_ops, line 123
PlannedDestDryShortcut(fs, o, target_dir, name) ==
  IF o.dry_run THEN Join(target_dir, name)
  ELSE unique_destination(fs, Join(target_dir, name))

PlannedDest(fs, o, target_dir, name) ==
  unique_destination(fs, Join(target_dir, name))

\* One turn of the loop of plan_ops on a yielded entry:
\* [fs, ops, out, mkdirFailed], ops being the yielded pairs (none or one).
Skipped(fs, out, mkdirFailed) ==
  [fs |-> fs, ops |-> <<>>, out |-> out, mkdirFailed |-> mkdirFailed]

PlanEntry(fs, o, name) ==
  LET entry == Join(o.downloads, name)
      y == file_year(fs, o.osName, entry, o.date_source)
      target_dir == Join(o.downloads, IntToStr(y.year))
      made == EnsureTargetDir(fs, o, target_dir)
      dest == PlannedDest(made.fs, o, target_dir, name)
  IN IF ~y.ok
     THEN Skipped(fs, IF o.verbose THEN <<<<"WARN_TIME", entry>>>> ELSE <<>>,
                  FALSE)
     ELSE IF Exists(fs, target_dir) /\ ~IsDir(fs, target_dir)
     THEN Skipped(fs, <<<<"WARN_NOT_DIR", entry>>>>, FALSE)
     ELSE IF ~made.ok
     THEN Skipped(fs, <<<<"WARN_MKDIR", entry>>>>, TRUE)
     ELSE [fs |-> made.fs, ops |-> <<[src |-> entry, dest |-> dest]>>,
           out |-> <<>>, mkdirFailed |-> FALSE]

\* One turn of the loop of iter_entries and, when it yields, of plan_ops
PlanStep(fs, o, name) ==
  IF Yields(fs, o.osName, o.downloads, name, o.include_dirs, o.include_links)
  THEN PlanEntry(fs, o, name)
  ELSE Skipped(fs, <<>>, FALSE)

\* list(plan_ops(opts)) over the names still to visit, from filesystem fs
RECURSIVE PlanAll(_, _, _)
PlanAll(fs, o, names) ==
  IF names = <<>> THEN Skipped(fs, <<>>, FALSE)
  ELSE LET one == PlanStep(fs, o, Head(names))
           rest == PlanAll(one.fs, o, Tail(names))
       IN [fs |-> rest.fs, ops |-> one.ops \o rest.ops,
           out |-> one.out \o rest.out,
           mkdirFailed |-> one.mkdirFailed \/ rest.mkdirFailed]

\* ------------------------------------------------------------- do_transfer
Failed(fs) == [ok |-> FALSE, fs |-> fs]

\* what a copy that follows links makes of a node
Deref(n) ==
  [n EXCEPT !.kind = IF n.kind \in {"linkdir", "junction"} THEN "dir"
                     ELSE IF n.kind = "linkfile" THEN "file" ELSE @,
            !.locked = FALSE]

\* os.makedirs of the parent of p inside copytree: the parent is there, or
\* is made under a directory
WithParent(fs, p) == MkDirExistOk(fs, Parent(p))

\* shutil.copytree(src, dst, symlinks): dst must not be there
CopyTree(fs, src, dst, symlinks) ==
  LET par == WithParent(fs, dst)
  IN IF Has(fs, dst) \/ ~par.ok THEN Failed(fs)
     ELSE [ok |-> TRUE,
           fs |-> par.fs \cup {Rebase(IF symlinks THEN n ELSE Deref(n), src, dst)
                               : n \in Subtree(fs, src)}]

\* shutil.copy2(src, dst): into dst when dst is a directory, else onto dst,
\* replacing the content of what is there
Copy2(fs, src, dst) ==
  LET s == NodeAt(fs, src)
      real == IF IsDir(fs, dst) THEN Join(dst, BaseName(src)) ELSE dst
      copy == [path |-> real, kind |-> "file", id |-> s.id, ct |-> NowYear,
               mt |-> s.mt, locked |-> FALSE]
      old == NodeAt(fs, real)
  IN IF IsDir(fs, real) \/ ~IsDir(fs, Parent(real)) THEN Failed(fs)
     ELSE IF ~Has(fs, real) THEN [ok |-> TRUE, fs |-> fs \cup {copy}]
     ELSE IF old.kind = "file"
     THEN [ok |-> TRUE, fs |-> (fs \ {old}) \cup {copy}]
     ELSE [ok |-> TRUE,
           fs |-> (fs \ {old}) \cup
                  {[old EXCEPT !.kind = "linkfile", !.id = s.id, !.mt = s.mt]}]

\* os.rename(src, real): TRUE when it succeeds.  Windows refuses a taken
\* name; elsewhere a directory cannot replace what is no directory, and
\* anything else replaces it.
RenameOk(fs, osName, src, real) ==
  /\ IsDir(fs, Parent(real))
  /\ Has(fs, real) =>
       /\ osName # "nt"
       /\ NodeAt(fs, src).kind # "dir"
       /\ ~IsDir(fs, real)

\* the filesystem after src is renamed to real
Renamed(fs, src, real) ==
  (fs \ (Subtree(fs, src) \cup Subtree(fs, real)))
    \cup {Rebase(n, src, real) : n \in Subtree(fs, src)}

\* shutil.move(src, dst)
Move(fs, osName, src, dst) ==
  LET s == NodeAt(fs, src)
      real == IF IsDir(fs, dst) THEN Join(dst, BaseName(src)) ELSE dst
      tree == CopyTree(fs, src, real, TRUE)
      file == Copy2(fs, src, real)
  IN IF IsDir(fs, dst) /\ Exists(fs, real) THEN Failed(fs)
     ELSE IF RenameOk(fs, osName, src, real)
     THEN [ok |-> TRUE, fs |-> Renamed(fs, src, real)]
     \* os.rename raised OSError: the fallbacks
     ELSE IF IsSymlink(fs, src)
     THEN Failed(fs)   \* os.symlink fails where os.rename of a link did
     ELSE IF IsDir(fs, src)
     THEN IF tree.ok
          THEN [ok |-> TRUE, fs |-> tree.fs \ Subtree(fs, src)]
          ELSE Failed(fs)
     ELSE IF file.ok
     THEN [ok |-> TRUE, fs |-> file.fs \ {s}]
     ELSE Failed(fs)

\* do_transfer(src, dest, mode): [ok, fs]; not ok stands for the exception
do_transfer(fs, osName, src, dest, mode) ==
  IF ~Has(fs, src) \/ NodeAt(fs, src).locked THEN Failed(fs)
  ELSE IF mode = "copy"
  THEN IF IsDir(fs, src) THEN CopyTree(fs, src, dest, FALSE)
       ELSE Copy2(fs, src, dest)
  ELSE Move(fs, osName, src, dest)

\* ------------------------------------------------------------------- state
VARIABLES
  opts,      \* Options, with the platform (os.name) the run is on
  fs,        \* the filesystem below opts.downloads
  pc,        \* where main is: "start", "list", "plan", "exec", "done"
  run,       \* 1 for the first invocation, 2 for the second
  listing,   \* iter_entries: the sorted names not yet visited
  ops,       \* the pairs plan_ops has yielded so far
  next,      \* index in ops of the next pair to execute
  failures,  \* main's failure counter
  out,       \* the lines printed so far in this invocation
  exitCode,  \* -1 while running, then the exit status
  \* history of the invocation, read by the properties only
  fs0,       \* the filesystem when the invocation started
  yielded,   \* the names iter_entries has yielded
  cand,      \* the argument of the last unique_destination call, or <<>>
  attempted, \* the pairs handed to do_transfer, in order
  results,   \* for each of them, whether do_transfer returned normally
  prev       \* the first invocation's plan and results, during the second

vars == <<opts, fs, pc, run, listing, ops, next, failures, out, exitCode,
          fs0, yielded, cand, attempted, results, prev>>

\* ------------------------------------------------------------------ inputs
NameA == <<"a", ".", "t">>
NameA1 == <<"a", " ", "(", "1", ")", ".", "t">>
NameA2 == <<"a", " ", "(", "2", ")", ".", "t">>
NameB == <<"B">>
Name2021 == <<"2", "0", "2", "1">>

Entry(name, kind, ct, mt, locked) ==
  [path |-> <<name>>, kind |-> kind, id |-> <<name>>, ct |-> ct, mt |-> mt,
   locked |-> locked]

\* the ordinary entries a downloads directory is drawn from
EntryPool ==
  { Entry(NameA, "file", 2021, 2021, FALSE),
    Entry(NameA, "file", 2021, 2022, FALSE),
    Entry(NameA, "file", 2021, 999, FALSE),
    Entry(NameA, "file", 2021, 2021, TRUE),
    Entry(NameA, "dir", 2021, 2021, FALSE),
    Entry(NameA, "linkfile", 2021, 2021, FALSE),
    Entry(NameA1, "file", 2021, 2021, FALSE),
    Entry(NameA1, "file", 2021, 10000, FALSE),
    Entry(NameA1, "dir", 2021, 2021, FALSE),
    Entry(NameA1, "junction", 2021, 2021, FALSE),
    Entry(NameB, "file", 2022, 2022, FALSE),
    Entry(NameB, "linkdir", 2021, 2021, FALSE),
    Entry(NameB, "dangling", 2021, 2021, FALSE) }

\* the files a year folder may already hold: the first k of these
PresortedNames == <<NameA, NameA1, NameA2>>

Presorted(k) ==
  { [path |-> <<Name2021, PresortedNames[i]>>, kind |-> "file",
     id |-> <<Name2021, PresortedNames[i]>>, ct |-> 2021, mt |-> 2021,
     locked |-> FALSE] : i \in 1..k }

\* what the name 2021 is in the downloads directory at start
YearEntries ==
  {{}} \cup
  { {Entry(Name2021, "file", 2022, 2022, FALSE)},
    {Entry(Name2021, "linkdir", 2021, 2021, FALSE)},
    {Entry(Name2021, "dangling", 2021, 2021, FALSE)} } \cup
  { {Entry(Name2021, "dir", 2021, 2021, FALSE)} \cup Presorted(k)
    : k \in 0..(IF MaxPresorted < 3 THEN MaxPresorted ELSE 3) }

RootDir == [path |-> Root, kind |-> "dir", id |-> Root, ct |-> 2021,
            mt |-> 2021, locked |-> FALSE]

DistinctNames(S) == \A a, b \in S : a.path = b.path => a = b

\* the filesystems a run may start from on the platform osName
Filesystems(osName) ==
  { {}, {[RootDir EXCEPT !.kind = "file"]} } \cup
  { {RootDir} \cup S \cup Y :
      S \in { T \in SUBSET EntryPool :
                /\ Cardinality(T) <= MaxEntries
                /\ DistinctNames(T)
                /\ osName # "nt" => \A n \in T : n.kind # "junction" },
      Y \in YearEntries }

OptionSets ==
  [ downloads : {Root},
    mode : {"move", "copy"},
    date_source : {"created", "modified"},
    dry_run : BOOLEAN,
    include_dirs : BOOLEAN,
    include_links : BOOLEAN,
    verbose : BOOLEAN,
    osName : {"nt", "posix"} ]

NoPrev == [ops |-> <<>>, results |-> <<>>]

Init ==
  /\ opts \in OptionSets
  /\ fs \in Filesystems(opts.osName)
  /\ pc = "start"
  /\ run = 1
  /\ listing = <<>>
  /\ ops = <<>>
  /\ next = 1
  /\ failures = 0
  /\ out = <<>>
  /\ exitCode = -1
  /\ fs0 = fs
  /\ yielded = <<>>
  /\ cand = <<>>
  /\ attempted = <<>>
  /\ results = <<>>
  /\ prev = NoPrev

\* ----------------------------------------------------------------- actions
\* main, lines 190-191: the downloads path must be a directory
Start ==
  /\ pc = "start"
  /\ IF ~Exists(fs, opts.downloads) \/ ~IsDir(fs, opts.downloads)
     THEN /\ pc' = "done"
          /\ exitCode' = 1
          /\ out' = Append(out, <<"NOT_A_DIRECTORY">>)
     ELSE /\ pc' = "list"
          /\ UNCHANGED <<exitCode, out>>
  /\ UNCHANGED <<opts, fs, run, listing, ops, next, failures, fs0, yielded,
                 cand, attempted, results, prev>>

\* iter_entries, line 92: the directory is read and sorted once
ListDir ==
  /\ pc = "list"
  /\ listing' = SortedNames(IterDir(fs, opts.downloads))
  /\ pc' = "plan"
  /\ UNCHANGED <<opts, fs, run, ops, next, failures, out, exitCode, fs0,
                 yielded, cand, attempted, results, prev>>

\* iter_entries, lines 92-100: the listing from its first entry that is
\* yielded on (empty when none is)
RECURSIVE NextYield(_, _, _)
NextYield(f, o, names) ==
  IF names = <<>> THEN <<>>
  ELSE IF Yields(f, o.osName, o.downloads, Head(names), o.include_dirs,
                 o.include_links)
  THEN names
  ELSE NextYield(f, o, Tail(names))

\* a planner that stops at the first entry it has to skip for an error
PlanNextAborting ==
  /\ pc = "plan"
  /\ listing # <<>>
  /\ \E rest \in {NextYield(fs, opts, listing)} :
     \E r \in {IF rest = <<>> THEN Skipped(fs, <<>>, FALSE)
                ELSE PlanEntry(fs, opts, Head(rest))} :
        /\ fs' = r.fs
        /\ ops' = ops \o r.ops
        /\ out' = out \o r.out
        /\ yielded' = IF rest = <<>> THEN yielded
                      ELSE Append(yielded, Head(rest))
        /\ cand' = IF r.ops # <<>>
                   THEN Join(Parent(r.ops[1].dest), Head(rest))
                   ELSE <<>>
        /\ listing' = IF rest = <<>> \/ r.ops = <<>> THEN <<>>
                      ELSE Tail(rest)
  /\ UNCHANGED <<opts, pc, run, next, failures, exitCode, fs0, attempted,
                 results, prev>>

\* one turn of the loop of plan_ops: iter_entries runs to its next yield
\* (or to its end), and the loop body handles the entry yielded
PlanNext ==
  /\ pc = "plan"
  /\ listing # <<>>
  /\ \E rest \in {NextYield(fs, opts, listing)} :
     \E r \in {IF rest = <<>> THEN Skipped(fs, <<>>, FALSE)
                ELSE PlanEntry(fs, opts, Head(rest))} :
        /\ fs' = r.fs
        /\ ops' = ops \o r.ops
        /\ out' = out \o r.out
        /\ yielded' = IF rest = <<>> THEN yielded
                      ELSE Append(yielded, Head(rest))
        /\ cand' = IF r.ops # <<>>
                   THEN Join(Parent(r.ops[1].dest), Head(rest))
                   ELSE <<>>
        /\ listing' = IF rest = <<>> THEN <<>> ELSE Tail(rest)
  /\ UNCHANGED <<opts, pc, run, next, failures, exitCode, fs0, attempted,
                 results, prev>>

\* main, lines 195-197
NothingToDo ==
  /\ pc = "plan"
  /\ listing = <<>>
  /\ ops = <<>>
  /\ out' = Append(out, <<"NOTHING_TO_DO">>)
  /\ exitCode' = 0
  /\ pc' = "done"
  /\ cand' = <<>>
  /\ UNCHANGED <<opts, fs, run, listing, ops, next, failures, fs0, yielded,
                 attempted, results, prev>>

\* the line main prints for one pair
PreviewLine(o, op) ==
  <<IF o.mode = "copy" THEN "COPY" ELSE "MOVE", op.src, op.dest>>

\* main, lines 199-205: the preview, then the end of a dry run
Preview ==
  /\ pc = "plan"
  /\ listing = <<>>
  /\ ops # <<>>
  /\ LET lines == [i \in 1..Len(ops) |-> PreviewLine(opts, ops[i])]
     IN IF opts.dry_run
        THEN /\ out' = (out \o lines) \o <<<<"DRY_RUN">>>>
             /\ exitCode' = 0
             /\ pc' = "done"
        ELSE /\ out' = out \o lines
             /\ pc' = "exec"
             /\ UNCHANGED exitCode
  /\ next' = 1
  /\ failures' = 0
  /\ cand' = <<>>
  /\ UNCHANGED <<opts, fs, run, listing, ops, fs0, yielded, attempted,
                 results, prev>>

\* an executor that stops the batch at the first failing transfer
ExecuteAborting ==
  /\ pc = "exec"
  /\ next <= Len(ops)
  /\ \E op \in {ops[next]} :
     \E r \in {do_transfer(fs, opts.osName, op.src, op.dest, opts.mode)} :
        /\ fs' = r.fs
        /\ failures' = IF r.ok THEN failures ELSE failures + 1
        /\ out' = IF r.ok THEN out
                  ELSE Append(out, <<"ERROR", op.src, op.dest>>)
        /\ attempted' = Append(attempted, op)
        /\ results' = Append(results, r.ok)
        /\ next' = IF r.ok THEN next + 1 ELSE Len(ops) + 1
  /\ UNCHANGED <<opts, pc, run, listing, ops, exitCode, fs0, yielded, cand,
                 prev>>

\* an executor that resolves the destination again before each transfer
ExecuteReprobing ==
  /\ pc = "exec"
  /\ next <= Len(ops)
  /\ \E op \in {[src |-> ops[next].src,
                   dest |-> unique_destination(fs, ops[next].dest)]} :
     \E r \in {do_transfer(fs, opts.osName, op.src, op.dest, opts.mode)} :
        /\ fs' = r.fs
        /\ failures' = IF r.ok THEN failures ELSE failures + 1
        /\ out' = IF r.ok THEN out
                  ELSE Append(out, <<"ERROR", op.src, op.dest>>)
        /\ attempted' = Append(attempted, op)
        /\ results' = Append(results, r.ok)
  /\ next' = next + 1
  /\ UNCHANGED <<opts, pc, run, listing, ops, exitCode, fs0, yielded, cand,
                 prev>>

\* main, lines 209-214: one pair of the plan
Execute ==
  /\ pc = "exec"
  /\ next <= Len(ops)
  /\ \E op \in {ops[next]} :
     \E r \in {do_transfer(fs, opts.osName, op.src, op.dest, opts.mode)} :
        /\ fs' = r.fs
        /\ failures' = IF r.ok THEN failures ELSE failures + 1
        /\ out' = IF r.ok THEN out
                  ELSE Append(out, <<"ERROR", op.src, op.dest>>)
        /\ attempted' = Append(attempted, op)
        /\ results' = Append(results, r.ok)
  /\ next' = next + 1
  /\ UNCHANGED <<opts, pc, run, listing, ops, exitCode, fs0, yielded, cand,
                 prev>>

\* main, lines 216-218
Finish ==
  /\ pc = "exec"
  /\ next > Len(ops)
  /\ IF failures # 0
     THEN /\ exitCode' = 1
          /\ out' = Append(out, <<"COMPLETED_WITH_FAILURES", failures>>)
     ELSE /\ exitCode' = 0
          /\ out' = Append(out, <<"DONE">>)
  /\ pc' = "done"
  /\ UNCHANGED <<opts, fs, run, listing, ops, next, failures, fs0, yielded,
                 cand, attempted, results, prev>>

\* the tool is started again with the same options on what a first
\* invocation that has moved entries has left
Rerun ==
  /\ pc = "done"
  /\ run = 1
  /\ opts.mode = "move"
  /\ ~opts.dry_run
  /\ attempted # <<>>
  /\ run' = 2
  /\ prev' = [ops |-> ops, results |-> results]
  /\ pc' = "start"
  /\ listing' = <<>>
  /\ ops' = <<>>
  /\ next' = 1
  /\ failures' = 0
  /\ out' = <<>>
  /\ exitCode' = -1
  /\ fs0' = fs
  /\ yielded' = <<>>
  /\ cand' = <<>>
  /\ attempted' = <<>>
  /\ results' = <<>>
  /\ UNCHANGED <<opts, fs>>

Next ==
  \/ Start
  \/ ListDir
  \/ PlanNext
  \/ NothingToDo
  \/ Preview
  \/ Execute
  \/ Finish
  \/ Rerun

Spec == Init /\ [][Next]_vars

\* ------------------------------------------------------------ properties
IsDirectoryKind(n) == n.kind \in {"dir", "linkdir", "junction"}
IsLinkKind(n) == n.kind \in {"linkfile", "linkdir", "dangling", "junction"}
FourDigits(name) ==
  /\ Len(name) = 4
  /\ \A i \in 1..4 : name[i] \in {"0", "1", "2", "3", "4", "5", "6", "7", "8", "9"}

Range(seq) == {seq[i] : i \in 1..Len(seq)}

\* the immediate children of the downloads directory in filesystem f
ChildrenOf(f) == {n \in f : Len(n.path) = 1}

\* plan_ops has consumed its whole listing and main has not gone further
PlanComplete == pc = "plan" /\ listing = <<>>

\* C1: with the dry-run flag set, the filesystem stays, throughout the run
\* and whatever the other options are, the one the run started from: no
\* year folder is created and no entry is moved or copied.
C1_DryRunKeepsFilesystem == opts.dry_run => fs = fs0

\* a finished dry run that printed a plan towards a year folder that does
\* not exist
C1_Witness ==
  /\ opts.dry_run
  /\ pc = "done"
  /\ ops # <<>>
  /\ \E i \in 1..Len(ops) : ~Has(fs, Parent(ops[i].dest))

\* C2: the names iter_entries has yielded are exactly the visited children
\* that are no directory named with four digits, that are no link or
\* junction unless include_links, and no directory unless include_dirs.
C2_PassesFilters(n) ==
  /\ ~(IsDirectoryKind(n) /\ FourDigits(n.path[1]))
  /\ opts.include_links \/ ~IsLinkKind(n)
  /\ opts.include_dirs \/ ~IsDirectoryKind(n)

C2_IterEntriesFilter ==
  pc \in {"plan", "exec"} =>
    /\ Range(yielded) =
         {n.path[1] : n \in {m \in ChildrenOf(fs0) :
                               /\ m.path[1] \notin Range(listing)
                               /\ C2_PassesFilters(m)}}
    /\ \A i, j \in 1..Len(yielded) : yielded[i] = yielded[j] => i = j
    /\ \A n \in ChildrenOf(fs0) :
         IsDirectoryKind(n) /\ FourDigits(n.path[1])
           => n.path[1] \notin Range(yielded)

\* with both include flags set, a link to a directory named 2021 was
\* passed over while another entry was yielded
C2_Witness ==
  /\ PlanComplete
  /\ opts.include_dirs /\ opts.include_links
  /\ yielded # <<>>
  /\ \E n \in ChildrenOf(fs0) : n.path = <<Name2021>> /\ n.kind = "linkdir"

\* C3: the path unique_destination returned does not exist; it is the
\* candidate when the candidate does not exist, and otherwise the numbered
\* name with the least n >= 1 that does not exist.
C3_UniqueDestination ==
  (pc = "plan" /\ cand # <<>>) =>
    LET dest == ops[Len(ops)].dest
        numbered(n) == Join(Parent(cand),
                            Numbered(Stem(BaseName(cand)), n,
                                     Suffix(BaseName(cand))))
    IN /\ ~Exists(fs, dest)
       /\ ~Exists(fs, cand) => dest = cand
       /\ Exists(fs, cand) =>
            \E n \in 1..Cardinality(fs) :
              /\ dest = numbered(n)
              /\ \A m \in 1..(n - 1) : Exists(fs, numbered(m))

\* 2021/a.t and 2021/a (1).t exist, and a.t was given 2021/a (2).t
C3_Witness ==
  /\ pc = "plan"
  /\ cand = <<Name2021, NameA>>
  /\ Exists(fs, <<Name2021, NameA>>)
  /\ Exists(fs, <<Name2021, NameA1>>)
  /\ ops[Len(ops)].dest = <<Name2021, NameA2>>

\* the pairs of the preview lines printed so far, in order
PrintedPairs ==
  LET lines == SelectSeq(out, LAMBDA l : l[1] \in {"MOVE", "COPY"})
  IN [i \in 1..Len(lines) |-> [src |-> lines[i][2], dest |-> lines[i][3]]]

AllOk(rs) == \A i \in 1..Len(rs) : rs[i]

\* the folder name of the year file_year gives the child n of fs0
YearFolderOf(n) ==
  IntToStr(IF opts.date_source = "created" THEN n.ct ELSE n.mt)

\* C4 as stated: after a first run in move mode whose transfers all
\* succeeded, the plan of the second run is empty.
C4_SecondRunPlansNothing ==
  (run = 2 /\ PlanComplete /\ AllOk(prev.results)) => ops = <<>>

\* C5: the executor hands every pair of the plan to do_transfer once, in
\* plan order, whatever the earlier outcomes; the failure count is the
\* number of transfers that raised; the exit status is 1 exactly when
\* that count is positive, and "Done." is printed exactly when it is zero.
C5_ExecutorCountsFailures ==
  /\ pc = "exec" =>
       /\ attempted = SubSeq(ops, 1, next - 1)
       /\ Len(results) = Len(attempted)
       /\ failures = Cardinality({i \in 1..Len(results) : ~results[i]})
       /\ exitCode = -1
  /\ (pc = "done" /\ ~opts.dry_run /\ ops # <<>>) =>
       /\ attempted = ops
       /\ Len(results) = Len(ops)
       /\ failures = Cardinality({i \in 1..Len(results) : ~results[i]})
       /\ exitCode = (IF failures > 0 THEN 1 ELSE 0)
       /\ (out[Len(out)] = <<"DONE">>) <=> (failures = 0)
       /\ \A i \in 1..Len(ops) :
            ~results[i] <=> <<"ERROR", ops[i].src, ops[i].dest>> \in Range(out)

\* a finished run in which a transfer failed and a later one succeeded
C5_Witness ==
  /\ pc = "done"
  /\ exitCode = 1
  /\ \E i, j \in 1..Len(results) : i < j /\ ~results[i] /\ results[j]

\* C6: before the plan is complete and printed nothing is transferred
\* (the filesystem differs from the one at start by created folders only);
\* the pairs handed to do_transfer are, in order, the pairs printed, which
\* are the pairs planned.
C6_PlanThenPreviewThenExecute ==
  /\ pc \in {"start", "list", "plan"} =>
       /\ attempted = <<>>
       /\ fs0 \subseteq fs
       /\ \A n \in fs \ fs0 : n.kind = "dir" /\ n.id = <<"new", n.path>>
       /\ PrintedPairs = <<>>
  /\ attempted # <<>> =>
       /\ pc \in {"exec", "done"}
       /\ listing = <<>>
       /\ PrintedPairs = ops
       /\ Len(attempted) <= Len(PrintedPairs)
       /\ attempted = SubSeq(PrintedPairs, 1, Len(attempted))
  /\ pc = "exec" => PrintedPairs = ops
  /\ (pc = "done" /\ ops # <<>>) =>
       /\ PrintedPairs = ops
       /\ ~opts.dry_run => attempted = PrintedPairs

\* a finished run that executed a plan of at least two pairs, the second
\* of which found its destination taken by then
C6_Witness ==
  /\ pc = "done"
  /\ Len(attempted) >= 2
  /\ attempted[1].dest = attempted[2].dest

\* C7: the pairs planned are, in enumeration order, the yielded entries
\* that had no planning error (unreadable time, year name taken by what is
\* no directory, year folder that cannot be created); the warning for an
\* unreadable time is printed exactly when verbose is set.
C7_TimeError(n) ==
  \/ n.kind = "dangling"
  \/ LET ts == IF opts.date_source = "created" THEN n.ct ELSE n.mt
     IN ts < 1 \/ ts > 9999 \/ (opts.osName = "nt" /\ ts < 1970)

C7_TargetError(n) ==
  \E t \in ChildrenOf(fs0) :
    /\ t.path = <<YearFolderOf(n)>>
    /\ \/ t.kind \in {"file", "linkfile"}
       \/ t.kind = "dangling" /\ ~opts.dry_run

C7_PlanSkipsOnlyErrors ==
  PlanComplete =>
    LET child(name) == CHOOSE n \in ChildrenOf(fs0) : n.path = <<name>>
        enumerated == SelectSeq(SortedNames(IterDir(fs0, opts.downloads)),
                                LAMBDA name : C2_PassesFilters(child(name)))
        good == SelectSeq(enumerated, LAMBDA name :
                  ~C7_TimeError(child(name)) /\ ~C7_TargetError(child(name)))
    IN /\ yielded = enumerated
       /\ Len(ops) = Len(good)
       /\ \A i \in 1..Len(good) : ops[i].src = <<good[i]>>
       /\ \A i \in 1..Len(enumerated) :
            C7_TimeError(child(enumerated[i])) =>
              (opts.verbose <=>
                 <<"WARN_TIME", <<enumerated[i]>>>> \in Range(out))

\* planning went on after an entry was skipped for an error: the first
\* yielded entry is not in the plan and a later one is
C7_Witness ==
  /\ PlanComplete
  /\ ops # <<>>
  /\ Len(yielded) > Len(ops)
  /\ ops[1].src # <<yielded[1]>>

\* C8 as stated: after a run that is no dry run and in which every
\* transfer succeeded, every planned entry is in the folder of its year
\* under its name or a numbered variant of it; in move mode the original
\* path is gone, in copy mode the original is still there.
C8_EveryEntryInItsYearFolder ==
  (pc = "done" /\ ~opts.dry_run /\ ops # <<>> /\ AllOk(results)) =>
    \A i \in 1..Len(ops) :
      LET n0 == NodeAt(fs0, ops[i].src)
          name == ops[i].src[1]
      IN /\ \E n \in fs :
              /\ n.id = n0.id
              /\ Len(n.path) = 2
              /\ n.path[1] = YearFolderOf(n0)
              /\ \/ n.path[2] = name
                 \/ \E k \in 1..Cardinality(fs) :
                      n.path[2] = Numbered(Stem(name), k, Suffix(name))
         /\ opts.mode = "move" => ~Has(fs, ops[i].src)
         /\ opts.mode = "copy" => n0 \in fs

\* C9 as stated: when execution begins the destinations of the plan are
\* pairwise distinct and none of them exists, and what a year folder held
\* at start is still there while the plan is executed.
C9_DestinationsDistinct ==
  pc = "exec" =>
    /\ \A i, j \in 1..Len(ops) : i # j => ops[i].dest # ops[j].dest
    /\ next = 1 => \A i \in 1..Len(ops) : ~Exists(fs, ops[i].dest)
    /\ \A n \in fs0 : Len(n.path) = 2 => n \in fs

\* C10: from the filesystem the run started from, and when no year folder
\* creation fails in the real run, plan_ops yields the same pairs with
\* dry_run set as with dry_run unset, and they are the pairs of this run.
C10_DryRunPredictsRealRun ==
  PlanComplete =>
    LET names == SortedNames(IterDir(fs0, opts.downloads))
        real == PlanAll(fs0, [opts EXCEPT !.dry_run = FALSE], names)
        dry == PlanAll(fs0, [opts EXCEPT !.dry_run = TRUE], names)
    IN ~real.mkdirFailed =>
         /\ dry.ops = real.ops
         /\ ops = real.ops
         /\ dry.fs = fs0

\* a real run whose planning created a year folder and found a
\* destination taken, so that a numbered name was planned
C10_Witness ==
  /\ PlanComplete
  /\ ~opts.dry_run
  /\ \E n \in fs \ fs0 : n.kind = "dir"
  /\ \E i \in 1..Len(ops) : BaseName(ops[i].dest) # BaseName(ops[i].src)
  /\ Len(ops) >= 2

====
